---- MODULE Spec2Model ----
(***************************************************************************)
(* Model of ovote-node's event synchronization engine (eth/eth.go) running *)
(* against the process registry and the synchronization checkpoint kept in *)
(* the SQLite store (db package).                                          *)
(*                                                                         *)
(* One invocation of Client.Sync is modelled: the main goroutine (read the *)
(* checkpoint, start the live log goroutine, syncHistory, syncBlocksLive)  *)
(* and the goroutine started by `go c.syncEventsLive()`.  Every call that  *)
(* can return an error (chain endpoint, storage) fails nondeterministically*)
(***************************************************************************)
EXTENDS Integers, Sequences, FiniteSets, TLC

\* ---------------------------------------------------------------- bounds
MaxPID == 1
MaxBlock == 1
MaxHistLogs == 2

\* ------------------------------------------------------------- constants
eventNewProcessLen == 288
eventResultPublishedLen == 160
eventProcessClosedLen == 96

ProcessStatusOn == "On"
ProcessStatusFrozen == "ResultsPublishing"
ProcessStatusContractClosed == "ContractClosed"

PIDs == 1..MaxPID
Blocks == 0..MaxBlock

\* a payload length that is none of the three event lengths
OtherLens == {0, 320}

\* the value of a log variable before any log was assigned to it
NoLog == [len |-> 0, pid |-> 0, resPubStartBlock |-> 0]

\* the value of the backfill's query before it is built
NoQuery == [FromBlock |-> 0, ToBlock |-> 0]

\* The registry row of a process id that has not been stored
NoProcess == [status |-> "absent", resPubStartBlock |-> 0]

\* types.Log as far as processEventLog acts on it: len(Data) and the fields
\* the parsers take from Data that reach the registry (none for a
\* ResultPublished log or a log of another length).  BlockNumber only reaches
\* log messages and the creation-block column, which no transition reads.
EventLogs ==
    [len : {eventNewProcessLen}, pid : PIDs, resPubStartBlock : Blocks]
    \cup [len : {eventProcessClosedLen}, pid : PIDs, resPubStartBlock : {0}]
    \cup [len : {eventResultPublishedLen} \cup OtherLens, pid : {1},
          resPubStartBlock : {0}]

VARIABLES
    processes,          \* db: processes table, process id -> row
    lastSyncBlockNum,   \* db: persisted synchronization checkpoint
    pcMain,             \* position of the goroutine running Sync
    pcLive,             \* position of the goroutine running syncEventsLive
    startBlock,         \* Sync's local lastSyncBlockNum / syncHistory's startBlock
    currBlockNum,       \* syncHistory's currBlockNum
    lenLogs,            \* syncEventsHistory's len(logs)
    histLog,           \* logs[i] of the backfill loop's last processEventLog call
    i,                  \* syncEventsHistory's loop index (1-based)
    histErr,            \* syncEventsHistory's err after the last processEventLog
    header,             \* syncBlocksLive's last received header number
    headerErr,          \* result of the last UpdateLastSyncBlockNum
    liveErr,            \* syncEventsLive's err after the last processEventLog
    syncReturn,         \* what made Sync return ("" while it has not)
    ckptReads,          \* number of GetLastSyncBlockNum calls made
    query,              \* syncEventsHistory's ethereum.FilterQuery block range
    closeSeen,          \* history: ids whose ProcessClosed the live goroutine
                        \* applied without error (written under RaceSpec only)
    votepackages,       \* db: votepackages table, rows in insertion order
    voteErr,            \* what the last StoreVotePackage call returned
    leaves,             \* census: the tree's leaves, with the reverse map
    nextIndex,          \* census: persisted nextIndex counter
    closed,             \* census: persisted closed flag
    invalids,           \* what the last AddPublicKeys call returned
    censusErr           \* error of the last AddPublicKeys or Close call

vars == <<processes, lastSyncBlockNum, pcMain, pcLive, startBlock,
          currBlockNum, lenLogs, histLog, i, histErr, header, headerErr,
          liveErr,
          syncReturn, ckptReads, query, closeSeen, votepackages, voteErr,
          leaves, nextIndex, closed, invalids, censusErr>>

dbVars == <<processes, lastSyncBlockNum>>
mainLocals == <<startBlock, currBlockNum, lenLogs, histLog, i, histErr, header,
               headerErr>>
liveLocals == <<liveErr>>
counters == <<ckptReads>>
voteVars == <<votepackages, voteErr>>
censusVars == <<leaves, nextIndex, closed, invalids, censusErr>>
\* the state only callers of the vote store and of the census write
apiVars == <<voteVars, censusVars>>
\* the engine's state apart from the processes table
engineVars == <<lastSyncBlockNum, pcMain, pcLive, mainLocals, liveLocals,
                syncReturn, counters, query, closeSeen>>

\* ------------------------------------------------------ persistence ports

\* StoreProcess: inserts the row with status On; fails if the id exists
StoreProcess(procs, id, resPubStartBlock, dbOk) ==
    IF ~dbOk \/ procs[id].status # "absent"
    THEN [procs |-> procs, err |-> "store"]
    ELSE [procs |-> [procs EXCEPT ![id] =
                        [status |-> ProcessStatusOn,
                         resPubStartBlock |-> resPubStartBlock]],
          err |-> "nil"]

\* UpdateProcessStatus: sets the status of the row with the given id
UpdateProcessStatus(procs, id, newStatus, dbOk) ==
    IF ~dbOk
    THEN [procs |-> procs, err |-> "update"]
    ELSE [procs |-> [p \in DOMAIN procs |->
                        IF p = id /\ procs[p].status # "absent"
                        THEN [procs[p] EXCEPT !.status = newStatus]
                        ELSE procs[p]],
          err |-> "nil"]

\* FrozeProcessesByCurrentBlockNum: conditional bulk transition of the rows
\* that are On and whose resPubStartBlock has been reached
FrozeProcessesByCurrentBlockNum(procs, blockNum) ==
    [p \in DOMAIN procs |->
        IF procs[p].status = ProcessStatusOn
           /\ procs[p].resPubStartBlock <= blockNum
        THEN [procs[p] EXCEPT !.status = ProcessStatusFrozen]
        ELSE procs[p]]

\* UpdateLastSyncBlockNum: overwrites the persisted checkpoint
UpdateLastSyncBlockNum(stored, blockNum, dbOk) ==
    IF dbOk THEN blockNum ELSE stored

\* ------------------------------------------------------- processEventLog

\* mutant for C1: the ProcessClosed case passes the wrong status
processEventLog_WrongStatus(procs, eventLog, parseOk, dbOk) ==
    IF eventLog.len = eventNewProcessLen THEN
        IF ~parseOk THEN [procs |-> procs, err |-> "parse"]
        ELSE StoreProcess(procs, eventLog.pid, eventLog.resPubStartBlock,
                          dbOk)
    ELSE IF eventLog.len = eventResultPublishedLen THEN
        IF ~parseOk THEN [procs |-> procs, err |-> "parse"]
        ELSE [procs |-> procs, err |-> "nil"]
    ELSE IF eventLog.len = eventProcessClosedLen THEN
        IF ~parseOk THEN [procs |-> procs, err |-> "parse"]
        ELSE UpdateProcessStatus(procs, eventLog.pid, ProcessStatusOn, dbOk)
    ELSE [procs |-> procs, err |-> "unrecognized"]

\* mutant for C8: a NewProcess for a stored id replaces the stored row
processEventLog_Replace(procs, eventLog, parseOk, dbOk) ==
    IF eventLog.len = eventNewProcessLen THEN
        IF ~parseOk THEN [procs |-> procs, err |-> "parse"]
        ELSE IF ~dbOk THEN [procs |-> procs, err |-> "store"]
        ELSE [procs |-> [procs EXCEPT ![eventLog.pid] =
                            [status |-> ProcessStatusOn,
                             resPubStartBlock |-> eventLog.resPubStartBlock]],
              err |-> IF procs[eventLog.pid].status # "absent"
                      THEN "store" ELSE "nil"]
    ELSE IF eventLog.len = eventResultPublishedLen THEN
        IF ~parseOk THEN [procs |-> procs, err |-> "parse"]
        ELSE [procs |-> procs, err |-> "nil"]
    ELSE IF eventLog.len = eventProcessClosedLen THEN
        IF ~parseOk THEN [procs |-> procs, err |-> "parse"]
        ELSE UpdateProcessStatus(procs, eventLog.pid,
                                 ProcessStatusContractClosed, dbOk)
    ELSE [procs |-> procs, err |-> "unrecognized"]

\* mutant for C9: ProcessClosed only closes a process that is still On
processEventLog_CloseOnlyOn(procs, eventLog, parseOk, dbOk) ==
    IF eventLog.len = eventNewProcessLen THEN
        IF ~parseOk THEN [procs |-> procs, err |-> "parse"]
        ELSE StoreProcess(procs, eventLog.pid, eventLog.resPubStartBlock,
                          dbOk)
    ELSE IF eventLog.len = eventResultPublishedLen THEN
        IF ~parseOk THEN [procs |-> procs, err |-> "parse"]
        ELSE [procs |-> procs, err |-> "nil"]
    ELSE IF eventLog.len = eventProcessClosedLen THEN
        IF ~parseOk THEN [procs |-> procs, err |-> "parse"]
        ELSE IF procs[eventLog.pid].status = ProcessStatusOn
        THEN UpdateProcessStatus(procs, eventLog.pid,
                                 ProcessStatusContractClosed, dbOk)
        ELSE [procs |-> procs, err |-> IF dbOk THEN "nil" ELSE "update"]
    ELSE [procs |-> procs, err |-> "unrecognized"]

\* mutant for C10: the ResultPublished case updates the process status
processEventLog_ResultCloses(procs, eventLog, parseOk, dbOk) ==
    IF eventLog.len = eventNewProcessLen THEN
        IF ~parseOk THEN [procs |-> procs, err |-> "parse"]
        ELSE StoreProcess(procs, eventLog.pid, eventLog.resPubStartBlock,
                          dbOk)
    ELSE IF eventLog.len = eventResultPublishedLen THEN
        IF ~parseOk THEN [procs |-> procs, err |-> "parse"]
        ELSE UpdateProcessStatus(procs, eventLog.pid,
                                 ProcessStatusContractClosed, dbOk)
    ELSE IF eventLog.len = eventProcessClosedLen THEN
        IF ~parseOk THEN [procs |-> procs, err |-> "parse"]
        ELSE UpdateProcessStatus(procs, eventLog.pid,
                                 ProcessStatusContractClosed, dbOk)
    ELSE [procs |-> procs, err |-> "unrecognized"]

\* processEventLog: dispatches on len(eventLog.Data), parses, applies.
\* parseOk: the parser of the recognized length succeeds; dbOk: the storage
\* call succeeds.  Returns the registry after the call and the error.
processEventLog(procs, eventLog, parseOk, dbOk) ==
    IF eventLog.len = eventNewProcessLen THEN
        IF ~parseOk THEN [procs |-> procs, err |-> "parse"]
        ELSE StoreProcess(procs, eventLog.pid, eventLog.resPubStartBlock,
                          dbOk)
    ELSE IF eventLog.len = eventResultPublishedLen THEN
        IF ~parseOk THEN [procs |-> procs, err |-> "parse"]
        ELSE [procs |-> procs, err |-> "nil"]
    ELSE IF eventLog.len = eventProcessClosedLen THEN
        IF ~parseOk THEN [procs |-> procs, err |-> "parse"]
        ELSE UpdateProcessStatus(procs, eventLog.pid,
                                 ProcessStatusContractClosed, dbOk)
    ELSE [procs |-> procs, err |-> "unrecognized"]

\* The calls processEventLog makes for a log and whether each succeeds: the
\* parser of the kind the length selects (none for another length), then,
\* reached only when the parser succeeded, the db call of a NewProcess or a
\* ProcessClosed log.
CallOutcomes(eventLog) ==
    IF eventLog.len \in {eventNewProcessLen, eventProcessClosedLen}
    THEN {[parseOk |-> TRUE, dbOk |-> TRUE], [parseOk |-> FALSE, dbOk |-> TRUE],
          [parseOk |-> TRUE, dbOk |-> FALSE]}
    ELSE IF eventLog.len = eventResultPublishedLen
    THEN {[parseOk |-> TRUE, dbOk |-> TRUE], [parseOk |-> FALSE, dbOk |-> TRUE]}
    ELSE {[parseOk |-> TRUE, dbOk |-> TRUE]}

\* ------------------------------------------------------------------ Init
\* Sync has not been called: both goroutines' positions and locals
SyncNotStarted ==
    /\ pcMain = "Sync"
    /\ pcLive = "notStarted"
    /\ startBlock = 0
    /\ currBlockNum = 0
    /\ lenLogs = 0
    /\ histLog = NoLog
    /\ i = 1
    /\ histErr = "nil"
    /\ header = 0
    /\ headerErr = "nil"
    /\ liveErr = "nil"
    /\ syncReturn = ""
    /\ ckptReads = 0
    /\ query = NoQuery
    /\ closeSeen = {}

\* the votepackages table is empty and no StoreVotePackage call was made
VoteStoreEmpty ==
    /\ votepackages = <<>>
    /\ voteErr = ""

\* a census as New returns it: no leaf, nextIndex 0, not closed
CensusNew ==
    /\ leaves = {}
    /\ nextIndex = 0
    /\ closed = FALSE
    /\ invalids = <<>>
    /\ censusErr = "nil"

Init ==
    /\ processes = [p \in PIDs |-> NoProcess]
    /\ lastSyncBlockNum \in Blocks
    /\ SyncNotStarted
    /\ VoteStoreEmpty
    /\ CensusNew

\* ------------------------------------------------- Sync (main goroutine)

\* Sync: lastSyncBlockNum, err := c.db.GetLastSyncBlockNum()
SyncGetLastSyncBlockNum ==
    /\ pcMain = "Sync"
    /\ \E ok \in BOOLEAN :
        IF ok
        THEN /\ startBlock' = lastSyncBlockNum
             /\ pcMain' = "goEventsLive"
             /\ syncReturn' = syncReturn
        ELSE /\ startBlock' = startBlock
             /\ pcMain' = "returned"
             /\ syncReturn' = "GetLastSyncBlockNum"
    /\ ckptReads' = ckptReads + 1
    /\ UNCHANGED <<dbVars, pcLive, currBlockNum, lenLogs, histLog, i, histErr,
                   header,
                   headerErr, liveLocals>>
    /\ UNCHANGED <<query, closeSeen, apiVars>>

\* Sync: go c.syncEventsLive()
SyncGoEventsLive ==
    /\ pcMain = "goEventsLive"
    /\ pcMain' = "syncHistory"
    /\ pcLive' = "subscribe"
    /\ UNCHANGED <<dbVars, mainLocals, liveLocals, syncReturn, counters>>
    /\ UNCHANGED <<query, closeSeen, apiVars>>

\* mutant for C5: the backfill advances the checkpoint to the fetched height
syncHistoryHeaderByNumber_Advances ==
    /\ pcMain = "syncHistory"
    /\ \E ok \in BOOLEAN, n \in Blocks :
        IF ok
        THEN /\ currBlockNum' = n
             /\ lastSyncBlockNum' = n
             /\ pcMain' = "FilterLogs"
             /\ syncReturn' = syncReturn
        ELSE /\ UNCHANGED <<currBlockNum, lastSyncBlockNum>>
             /\ pcMain' = "returned"
             /\ syncReturn' = "HeaderByNumber"
    /\ UNCHANGED <<processes, pcLive, startBlock, lenLogs, histLog, i, histErr,
                   header,
                   headerErr, liveLocals, counters>>
    /\ UNCHANGED <<query, closeSeen, apiVars>>

\* syncHistory: header, err := c.client.HeaderByNumber(ctx, nil)
syncHistoryHeaderByNumber ==
    /\ pcMain = "syncHistory"
    /\ \E ok \in BOOLEAN, n \in Blocks :
        IF ok
        THEN /\ currBlockNum' = n
             /\ pcMain' = "FilterLogs"
             /\ syncReturn' = syncReturn
        ELSE /\ currBlockNum' = currBlockNum
             /\ pcMain' = "returned"
             /\ syncReturn' = "HeaderByNumber"
    /\ UNCHANGED <<dbVars, pcLive, startBlock, lenLogs, histLog, i, histErr,
                   header,
                   headerErr, liveLocals, counters>>
    /\ UNCHANGED <<query, closeSeen, apiVars>>

\* mutant for C19: the query starts at block 0, not at the checkpoint
syncEventsHistoryFilterLogs_FromZero ==
    /\ pcMain = "FilterLogs"
    /\ \/ \E n \in 0..MaxHistLogs :
            /\ lenLogs' = n
            /\ i' = 1
            /\ pcMain' = IF n = 0 THEN "Froze" ELSE "historyLoop"
            /\ syncReturn' = syncReturn
       \/ /\ UNCHANGED <<lenLogs, i>>
          /\ pcMain' = "returned"
          /\ syncReturn' = "FilterLogs"
    /\ UNCHANGED <<dbVars, pcLive, startBlock, currBlockNum, histLog, histErr,
                   header, headerErr, liveLocals, counters>>
    /\ query' = [FromBlock |-> 0, ToBlock |-> currBlockNum]
    /\ UNCHANGED <<closeSeen, apiVars>>

\* syncEventsHistory: logs, err := c.client.FilterLogs(ctx, query).
\* The batch is a slice the loop only reads, one element per iteration: its
\* length is drawn here and each element when the loop reaches it.
syncEventsHistoryFilterLogs ==
    /\ pcMain = "FilterLogs"
    /\ \/ \E n \in 0..MaxHistLogs :
            /\ lenLogs' = n
            /\ i' = 1
            /\ pcMain' = IF n = 0 THEN "Froze" ELSE "historyLoop"
            /\ syncReturn' = syncReturn
       \/ /\ UNCHANGED <<lenLogs, i>>
          /\ pcMain' = "returned"
          /\ syncReturn' = "FilterLogs"
    /\ UNCHANGED <<dbVars, pcLive, startBlock, currBlockNum, histLog, histErr,
                   header, headerErr, liveLocals, counters>>
    /\ query' = [FromBlock |-> startBlock, ToBlock |-> currBlockNum]
    /\ UNCHANGED <<closeSeen, apiVars>>

\* mutant for C7: the backfill loop returns at the first failing log
syncEventsHistoryLoop_ReturnOnErr ==
    /\ pcMain = "historyLoop"
    /\ i <= lenLogs
    /\ \E l \in EventLogs : \E o \in CallOutcomes(l) :
        LET r == processEventLog(processes, l, o.parseOk, o.dbOk) IN
        /\ histLog' = l
        /\ processes' = r.procs
        /\ histErr' = r.err
        /\ i' = i + 1
        /\ pcMain' = IF r.err # "nil" \/ i + 1 > lenLogs
                     THEN "Froze" ELSE "historyLoop"
    /\ UNCHANGED <<lastSyncBlockNum, pcLive, startBlock, currBlockNum, lenLogs,
                   header, headerErr, liveLocals, syncReturn, counters>>
    /\ UNCHANGED <<query, closeSeen, apiVars>>

\* syncEventsHistory: one iteration of  for i := 0; i < len(logs); i++
syncEventsHistoryLoop ==
    /\ pcMain = "historyLoop"
    /\ i <= lenLogs
    /\ \E l \in EventLogs : \E o \in CallOutcomes(l) :
        LET r == processEventLog(processes, l, o.parseOk, o.dbOk) IN
        /\ histLog' = l
        /\ processes' = r.procs
        /\ histErr' = r.err
        /\ i' = i + 1
        /\ pcMain' = IF i + 1 > lenLogs THEN "Froze" ELSE "historyLoop"
    /\ UNCHANGED <<lastSyncBlockNum, pcLive, startBlock, currBlockNum, lenLogs,
                   header, headerErr, liveLocals, syncReturn, counters>>
    /\ UNCHANGED <<query, closeSeen, apiVars>>

\* mutant for C3: the backfill stores the queried height as the checkpoint
syncHistoryFroze_StoresCheckpoint ==
    /\ pcMain = "Froze"
    /\ \E ok \in BOOLEAN :
        IF ok
        THEN /\ processes' =
                    FrozeProcessesByCurrentBlockNum(processes, currBlockNum)
             /\ lastSyncBlockNum' = currBlockNum
             /\ pcMain' = "SubscribeNewHead"
             /\ syncReturn' = syncReturn
        ELSE /\ UNCHANGED <<processes, lastSyncBlockNum>>
             /\ pcMain' = "returned"
             /\ syncReturn' = "FrozeProcessesByCurrentBlockNum"
    /\ lenLogs' = 0 /\ histLog' = NoLog /\ i' = 1 /\ histErr' = "nil"
    /\ currBlockNum' = 0
    /\ UNCHANGED <<pcLive, startBlock, header, headerErr,
                   liveLocals, counters>>
    /\ query' = NoQuery
    /\ UNCHANGED <<closeSeen, apiVars>>

\* syncHistory: err = c.db.FrozeProcessesByCurrentBlockNum(currBlockNum);
\* syncEventsHistory has returned and syncHistory returns: their locals
\* (logs, i, err, query, currBlockNum) are gone
syncHistoryFroze ==
    /\ pcMain = "Froze"
    /\ \E ok \in BOOLEAN :
        IF ok
        THEN /\ processes' =
                    FrozeProcessesByCurrentBlockNum(processes, currBlockNum)
             /\ pcMain' = "SubscribeNewHead"
             /\ syncReturn' = syncReturn
        ELSE /\ processes' = processes
             /\ pcMain' = "returned"
             /\ syncReturn' = "FrozeProcessesByCurrentBlockNum"
    /\ lenLogs' = 0 /\ histLog' = NoLog /\ i' = 1 /\ histErr' = "nil"
    /\ currBlockNum' = 0
    /\ UNCHANGED <<lastSyncBlockNum, pcLive, startBlock, header,
                   headerErr, liveLocals, counters>>
    /\ query' = NoQuery
    /\ UNCHANGED <<closeSeen, apiVars>>

\* syncBlocksLive: sub, err := c.client.SubscribeNewHead(ctx, headers)
syncBlocksLiveSubscribe ==
    /\ pcMain = "SubscribeNewHead"
    /\ \E ok \in BOOLEAN :
        IF ok
        THEN /\ pcMain' = "blocksLoop"
             /\ syncReturn' = syncReturn
        ELSE /\ pcMain' = "returned"
             /\ syncReturn' = "SubscribeNewHead"
    /\ UNCHANGED <<dbVars, pcLive, mainLocals, liveLocals, counters>>
    /\ UNCHANGED <<query, closeSeen, apiVars>>

\* mutant for C4: the stored number is not the received header's number
syncBlocksLiveHeader_StoresOther ==
    /\ pcMain = "blocksLoop"
    /\ \E n \in Blocks, ok \in BOOLEAN :
        /\ header' = n
        /\ headerErr' = IF ok THEN "nil" ELSE "update"
        /\ lastSyncBlockNum' = UpdateLastSyncBlockNum(lastSyncBlockNum, 0, ok)
    /\ UNCHANGED <<processes, pcMain, pcLive, startBlock, currBlockNum, lenLogs,
                   histLog,
                   i, histErr, liveLocals, syncReturn, ckptReads>>
    /\ UNCHANGED <<query, closeSeen, apiVars>>

\* mutant for C6: a failed checkpoint update makes syncBlocksLive return
syncBlocksLiveHeader_ReturnOnErr ==
    /\ pcMain = "blocksLoop"
    /\ \E n \in Blocks, ok \in BOOLEAN :
        /\ header' = n
        /\ headerErr' = IF ok THEN "nil" ELSE "update"
        /\ lastSyncBlockNum' = UpdateLastSyncBlockNum(lastSyncBlockNum, n, ok)
        /\ pcMain' = IF ok THEN pcMain ELSE "returned"
        /\ syncReturn' = IF ok THEN syncReturn ELSE "UpdateLastSyncBlockNum"
    /\ UNCHANGED <<processes, pcLive, startBlock, currBlockNum, lenLogs,
                   histLog,
                   i, histErr, liveLocals, ckptReads>>
    /\ UNCHANGED <<query, closeSeen, apiVars>>

\* syncBlocksLive: case header := <-headers
syncBlocksLiveHeader ==
    /\ pcMain = "blocksLoop"
    /\ \E n \in Blocks, ok \in BOOLEAN :
        /\ header' = n
        /\ headerErr' = IF ok THEN "nil" ELSE "update"
        /\ lastSyncBlockNum' = UpdateLastSyncBlockNum(lastSyncBlockNum, n, ok)
    /\ UNCHANGED <<processes, pcMain, pcLive, startBlock, currBlockNum, lenLogs,
                   histLog,
                   i, histErr, liveLocals, syncReturn, ckptReads>>
    /\ UNCHANGED <<query, closeSeen, apiVars>>

\* syncBlocksLive: case err := <-sub.Err()
syncBlocksLiveSubErr ==
    /\ pcMain = "blocksLoop"
    /\ headerErr' = "subscription"
    /\ UNCHANGED <<dbVars, pcMain, pcLive, startBlock, currBlockNum, lenLogs,
                   histLog, i,
                   histErr, header, liveLocals, syncReturn, ckptReads>>
    /\ UNCHANGED <<query, closeSeen, apiVars>>

\* ------------------------------------------- syncEventsLive (goroutine)

\* syncEventsLive: sub, err := c.client.SubscribeFilterLogs(ctx, query, logs)
syncEventsLiveSubscribe ==
    /\ pcLive = "subscribe"
    /\ \E ok \in BOOLEAN : pcLive' = IF ok THEN "eventsLoop" ELSE "exited"
    /\ UNCHANGED <<dbVars, pcMain, mainLocals, liveLocals, syncReturn, counters>>
    /\ UNCHANGED <<query, closeSeen, apiVars>>

\* syncEventsLive: the body of  case vLog := <-logs  for one received log
syncEventsLiveLogOf(vLog, parseOk, dbOk) ==
    /\ pcLive = "eventsLoop"
    /\ LET r == processEventLog(processes, vLog, parseOk, dbOk) IN
        /\ processes' = r.procs
        /\ liveErr' = r.err
    /\ UNCHANGED <<lastSyncBlockNum, pcMain, pcLive, mainLocals, syncReturn,
                   ckptReads>>
    /\ UNCHANGED <<query, apiVars>>

\* syncEventsLive: case vLog := <-logs
syncEventsLiveLog ==
    /\ \E vLog \in EventLogs : \E o \in CallOutcomes(vLog) :
        syncEventsLiveLogOf(vLog, o.parseOk, o.dbOk)
    /\ UNCHANGED closeSeen

\* syncEventsLive: case err := <-sub.Err()
syncEventsLiveSubErr ==
    /\ pcLive = "eventsLoop"
    /\ liveErr' = "subscription"
    /\ UNCHANGED <<dbVars, pcMain, pcLive, mainLocals, syncReturn, ckptReads>>
    /\ UNCHANGED <<query, closeSeen, apiVars>>

\* ------------------------------------------------------------------ Next
Next ==
    \/ SyncGetLastSyncBlockNum
    \/ SyncGoEventsLive
    \/ syncHistoryHeaderByNumber
    \/ syncEventsHistoryFilterLogs
    \/ syncEventsHistoryLoop
    \/ syncHistoryFroze
    \/ syncBlocksLiveSubscribe
    \/ syncBlocksLiveHeader
    \/ syncBlocksLiveSubErr
    \/ syncEventsLiveSubscribe
    \/ syncEventsLiveLog
    \/ syncEventsLiveSubErr

Spec == Init /\ [][Next]_vars

MainStep ==
    \/ SyncGetLastSyncBlockNum \/ SyncGoEventsLive \/ syncHistoryHeaderByNumber
    \/ syncEventsHistoryFilterLogs \/ syncEventsHistoryLoop \/ syncHistoryFroze
    \/ syncBlocksLiveSubscribe \/ syncBlocksLiveHeader \/ syncBlocksLiveSubErr

LiveStep ==
    syncEventsLiveSubscribe \/ syncEventsLiveLog \/ syncEventsLiveSubErr

\* both goroutines keep being scheduled, and headers and logs keep arriving
FairSpec == Spec /\ WF_vars(MainStep) /\ WF_vars(LiveStep)

TypeOK ==
    /\ processes \in [PIDs -> [status : {"absent", ProcessStatusOn,
                                         ProcessStatusFrozen,
                                         ProcessStatusContractClosed},
                               resPubStartBlock : Blocks]]
    /\ lastSyncBlockNum \in Blocks
    /\ i \in 1..(lenLogs + 1)

\* ------------------------------------------- Sync with a history variable

\* syncEventsLive: case vLog := <-logs, with closeSeen recording the ids
\* whose ProcessClosed log processEventLog returned no error for
RaceEventsLiveLog ==
    \E vLog \in EventLogs : \E o \in CallOutcomes(vLog) :
        /\ syncEventsLiveLogOf(vLog, o.parseOk, o.dbOk)
        /\ closeSeen' =
            IF /\ vLog.len = eventProcessClosedLen
               /\ processEventLog(processes, vLog, o.parseOk, o.dbOk).err
                  = "nil"
            THEN closeSeen \cup {vLog.pid}
            ELSE closeSeen

RaceNext ==
    \/ SyncGetLastSyncBlockNum
    \/ SyncGoEventsLive
    \/ syncHistoryHeaderByNumber
    \/ syncEventsHistoryFilterLogs
    \/ syncEventsHistoryLoop
    \/ syncHistoryFroze
    \/ syncBlocksLiveSubscribe
    \/ syncBlocksLiveHeader
    \/ syncBlocksLiveSubErr
    \/ syncEventsLiveSubscribe
    \/ RaceEventsLiveLog
    \/ syncEventsLiveSubErr

\* Spec with the live goroutine's applied ProcessClosed logs remembered
RaceSpec == Init /\ [][RaceNext]_vars

\* ------------------------------------------- vote package store (db)

\* bounds of the vote store: census indexes 0..MaxIndex, at most MaxVotes rows
MaxIndex == 1
MaxVotes == 3

\* the process ids votes are submitted for (stored or not in the registry)
VotePIDs == {1, 2}
VoteIndexes == 0..MaxIndex
PublicKeys == {"pkA", "pkB"}

\* types.VotePackage as far as the store keys and orders it: CensusProof.Index
\* and CensusProof.PublicKey.  Weight, MerkleProof, Signature and Vote are
\* columns the store writes and reads back without acting on them.
VotePackages == [indx : VoteIndexes, publicKey : PublicKeys]

\* mutant for C11: the id leaves the public key out
VoteID_NoKey(index, publicKey, processID) == <<index, processID>>

\* the 48-byte id: index (8, little endian) + compressed public key (32)
\* + processID (8, little endian); fixed widths, so the id determines the three
VoteID(index, publicKey, processID) == <<index, publicKey, processID>>

ProcessExists(procs, processID) ==
    processID \in DOMAIN procs /\ procs[processID].status # "absent"

\* the INSERT on the votepackages table, whose id column is UNIQUE and whose
\* processID column is a FOREIGN KEY to the processes table
InsertVotePackage(rows, procs, row, dbOk) ==
    IF ~dbOk THEN [rows |-> rows, err |-> "exec"]
    ELSE IF \E k \in 1..Len(rows) : rows[k].id = row.id
    THEN [rows |-> rows, err |-> "UNIQUE constraint failed"]
    ELSE IF ~ProcessExists(procs, row.processID)
    THEN [rows |-> rows, err |-> "FOREIGN KEY constraint failed"]
    ELSE [rows |-> Append(rows, row), err |-> "nil"]

\* mutant for C12: the FOREIGN KEY failure is returned as the driver gave it
StoreVotePackage_RawError(rows, procs, processID, vote, dbOk) ==
    InsertVotePackage(rows, procs,
        [id |-> VoteID(vote.indx, vote.publicKey, processID),
         indx |-> vote.indx, publicKey |-> vote.publicKey,
         processID |-> processID], dbOk)

\* StoreVotePackage(processID, vote): what the table becomes and the error
StoreVotePackage(rows, procs, processID, vote, dbOk) ==
    LET id == VoteID(vote.indx, vote.publicKey, processID)
        r == InsertVotePackage(rows, procs,
                [id |-> id, indx |-> vote.indx, publicKey |-> vote.publicKey,
                 processID |-> processID], dbOk)
    IN  IF r.err = "FOREIGN KEY constraint failed"
        THEN [rows |-> r.rows, err |-> "ProcessID does not exist"]
        ELSE r

\* ORDER BY indx ASC: r placed after the rows whose indx is not greater
RECURSIVE InsertByIndx(_, _)
InsertByIndx(sorted, r) ==
    IF sorted = <<>> THEN <<r>>
    ELSE IF r.indx < Head(sorted).indx THEN <<r>> \o sorted
    ELSE <<Head(sorted)>> \o InsertByIndx(Tail(sorted), r)

RECURSIVE OrderByIndxAsc(_)
OrderByIndxAsc(rows) ==
    IF rows = <<>> THEN <<>>
    ELSE InsertByIndx(OrderByIndxAsc(SubSeq(rows, 1, Len(rows) - 1)),
                      rows[Len(rows)])

\* the selected columns of a row, scanned into a types.VotePackage
ScanVotePackage(row) == [indx |-> row.indx, publicKey |-> row.publicKey]

\* mutant for C13: the query has no ORDER BY, rows come in insertion order
ReadVotePackagesByProcessID_NoOrder(rows, processID) ==
    LET sel == SelectSeq(rows, LAMBDA r : r.processID = processID)
    IN  [k \in 1..Len(sel) |-> ScanVotePackage(sel[k])]

\* ReadVotePackagesByProcessID(processID): WHERE processID = ? ORDER BY indx
ReadVotePackagesByProcessID(rows, processID) ==
    LET sel == OrderByIndxAsc(
                   SelectSeq(rows, LAMBDA r : r.processID = processID))
    IN  [k \in 1..Len(sel) |-> ScanVotePackage(sel[k])]

\* a caller submits a vote package
StoreVotePackageCall ==
    /\ \E processID \in VotePIDs, vote \in VotePackages, dbOk \in BOOLEAN :
        LET r == StoreVotePackage(votepackages, processes, processID, vote,
                                  dbOk) IN
        /\ Len(r.rows) <= MaxVotes
        /\ votepackages' = r.rows
        /\ voteErr' = r.err
    /\ UNCHANGED <<processes, engineVars, censusVars>>

\* The engine as the vote store sees it: one of its goroutines applies a
\* NewProcess or a ProcessClosed log to the registry ...
VoteEventLogs ==
    [len : {eventNewProcessLen, eventProcessClosedLen}, pid : VotePIDs,
     resPubStartBlock : {0}]

RegistryEventLog ==
    /\ \E l \in VoteEventLogs :
        processes' = processEventLog(processes, l, TRUE, TRUE).procs
    /\ UNCHANGED <<engineVars, apiVars>>

\* ... or the backfill runs its freeze sweep
RegistryFroze ==
    /\ processes' = FrozeProcessesByCurrentBlockNum(processes, currBlockNum)
    /\ UNCHANGED <<engineVars, apiVars>>

VoteInit ==
    /\ processes = [p \in VotePIDs |-> NoProcess]
    /\ lastSyncBlockNum = 0
    /\ SyncNotStarted
    /\ VoteStoreEmpty
    /\ CensusNew

VoteNext ==
    \/ StoreVotePackageCall
    \/ RegistryEventLog
    \/ RegistryFroze

\* the vote store next to a registry the engine keeps changing
VoteSpec == VoteInit /\ [][VoteNext]_vars

\* ------------------------------------------------------ census (census)

\* bounds of the census: public keys 1..MaxKeys, at most MaxBatch keys a call
MaxKeys == 3
MaxBatch == 2

CensusKeys == 1..MaxKeys
\* the pubKs argument of one AddPublicKeys call
Batches == UNION {[1..n -> CensusKeys] : n \in 0..MaxBatch}
Range(seq) == {seq[k] : k \in 1..Len(seq)}

\* A leaf is (index, publicKey); the weight, which no operation below
\* branches on, is left out.  The tree commits to its set of leaves: the
\* root of two trees is equal exactly when their leaves are.
EmptyRoot == {}
Root(lvs) == lvs
HasKey(lvs, pubK) == \E l \in lvs : l.publicKey = pubK

\* the loop of AddPublicKeys over the keys of the call: a key that has a leaf
\* (from an earlier call or from this one) is reported, a new key gets the
\* next index
RECURSIVE addKeys(_, _, _, _)
addKeys(lvs, next, inv, pubKs) ==
    IF pubKs = <<>>
    THEN [leaves |-> lvs, nextIndex |-> next, invalids |-> inv, err |-> "nil"]
    ELSE IF HasKey(lvs, Head(pubKs))
    THEN addKeys(lvs, next, Append(inv, Head(pubKs)), Tail(pubKs))
    ELSE addKeys(lvs \cup {[index |-> next, publicKey |-> Head(pubKs)]},
                 next + 1, inv, Tail(pubKs))

\* mutant for C15: a key's index is its position in the call's batch
RECURSIVE addKeys_BatchIndex(_, _, _, _, _)
addKeys_BatchIndex(lvs, next, inv, pubKs, pos) ==
    IF pubKs = <<>>
    THEN [leaves |-> lvs, nextIndex |-> next, invalids |-> inv, err |-> "nil"]
    ELSE IF HasKey(lvs, Head(pubKs))
    THEN addKeys_BatchIndex(lvs, next, Append(inv, Head(pubKs)), Tail(pubKs),
                            pos)
    ELSE addKeys_BatchIndex(
             lvs \cup {[index |-> pos, publicKey |-> Head(pubKs)]},
             next + 1, inv, Tail(pubKs), pos + 1)

AddPublicKeys_BatchIndex(lvs, next, isClosed, pubKs, dbOk) ==
    IF isClosed
    THEN [leaves |-> lvs, nextIndex |-> next, invalids |-> <<>>,
          err |-> "closed"]
    ELSE IF ~dbOk
    THEN [leaves |-> lvs, nextIndex |-> next, invalids |-> <<>>,
          err |-> "storage"]
    ELSE addKeys_BatchIndex(lvs, next, <<>>, pubKs, 0)

\* mutant for C16: nextIndex advances for the rejected keys too
AddPublicKeys_CountsInvalids(lvs, next, isClosed, pubKs, dbOk) ==
    IF isClosed
    THEN [leaves |-> lvs, nextIndex |-> next, invalids |-> <<>>,
          err |-> "closed"]
    ELSE IF ~dbOk
    THEN [leaves |-> lvs, nextIndex |-> next, invalids |-> <<>>,
          err |-> "storage"]
    ELSE [addKeys(lvs, next, <<>>, pubKs)
             EXCEPT !.nextIndex = next + Len(pubKs)]

\* mutant for C17: enrollment does not look at the closed flag
AddPublicKeys_NoClosedCheck(lvs, next, isClosed, pubKs, dbOk) ==
    IF ~dbOk
    THEN [leaves |-> lvs, nextIndex |-> next, invalids |-> <<>>,
          err |-> "storage"]
    ELSE addKeys(lvs, next, <<>>, pubKs)

\* AddPublicKeys(pubKs, weights): (invalids, err) and what the census becomes.
\* Refused on a closed census; a storage failure consumes no index.
AddPublicKeys(lvs, next, isClosed, pubKs, dbOk) ==
    IF isClosed
    THEN [leaves |-> lvs, nextIndex |-> next, invalids |-> <<>>,
          err |-> "closed"]
    ELSE IF ~dbOk
    THEN [leaves |-> lvs, nextIndex |-> next, invalids |-> <<>>,
          err |-> "storage"]
    ELSE addKeys(lvs, next, <<>>, pubKs)

\* Census.Close(): sets the closed flag; closing a closed census changes
\* nothing
CloseCensus(isClosed, dbOk) ==
    IF isClosed THEN [closed |-> TRUE, err |-> "nil"]
    ELSE IF ~dbOk THEN [closed |-> FALSE, err |-> "storage"]
    ELSE [closed |-> TRUE, err |-> "nil"]

\* mutant for C18: Info reports the tree's current root while open too
Info_CurrentRoot(lvs, next, isClosed) ==
    [ErrMsg |-> "", Size |-> next, Closed |-> isClosed, Root |-> Root(lvs)]

\* Info(): types.CensusInfo.  Root is set from the tree only once the census
\* is closed.  ErrMsg is a stored field that enrollment and Close do not
\* write (it is set by the caller that runs an enrollment asynchronously).
Info(lvs, next, isClosed) ==
    [ErrMsg |-> "", Size |-> next, Closed |-> isClosed,
     Root |-> IF isClosed THEN Root(lvs) ELSE EmptyRoot]

\* a caller enrolls a batch of public keys
CensusAddPublicKeys ==
    /\ \E pubKs \in Batches, dbOk \in BOOLEAN :
        LET r == AddPublicKeys(leaves, nextIndex, closed, pubKs, dbOk) IN
        /\ leaves' = r.leaves
        /\ nextIndex' = r.nextIndex
        /\ invalids' = r.invalids
        /\ censusErr' = r.err
    /\ UNCHANGED <<closed, processes, engineVars, voteVars>>

\* a caller closes the census
CensusClose ==
    /\ \E dbOk \in BOOLEAN :
        LET r == CloseCensus(closed, dbOk) IN
        /\ closed' = r.closed
        /\ censusErr' = r.err
    /\ UNCHANGED <<leaves, nextIndex, invalids, processes, engineVars,
                   voteVars>>

CensusInit ==
    /\ processes = [p \in PIDs |-> NoProcess]
    /\ lastSyncBlockNum = 0
    /\ SyncNotStarted
    /\ VoteStoreEmpty
    /\ CensusNew

CensusNext ==
    \/ CensusAddPublicKeys
    \/ CensusClose

\* one census and its callers
CensusSpec == CensusInit /\ [][CensusNext]_vars

\* ---------------------------------------------------------------- claims

BackfillPcs == {"syncHistory", "FilterLogs", "historyLoop", "Froze"}
Stored(p) == processes[p].status # "absent"
ProcessClosedLog(p) ==
    [len |-> eventProcessClosedLen, pid |-> p, resPubStartBlock |-> 0]

\* C1: in every step (backfill log, live log, freeze sweep, in any
\* interleaving) a process that is ContractClosed stays ContractClosed and a
\* process that is ResultsPublishing does not go back to On; a stored process
\* is never removed.
C1_StatusMovesForward ==
    [][\A p \in PIDs :
        /\ processes[p].status = ProcessStatusContractClosed
            => processes'[p].status = ProcessStatusContractClosed
        /\ processes[p].status = ProcessStatusFrozen
            => processes'[p].status \in {ProcessStatusFrozen,
                                         ProcessStatusContractClosed}
        /\ Stored(p) => processes'[p].status # "absent"]_vars

\* C1 witness: the backfill has applied a NewProcess log for a process that
\* was closed before, and the process is still ContractClosed
C1_Witness ==
    /\ pcMain \in {"historyLoop", "Froze"}
    /\ histLog.len = eventNewProcessLen
    /\ histErr = "store"
    /\ processes[histLog.pid].status = ProcessStatusContractClosed

\* C2 (as claimed): a process that is On while the header loop has stored a
\* checkpoint >= its resPubStartBlock eventually leaves status On (frozen,
\* or closed first).
C2_FrozenWhenReached ==
    \A p \in PIDs :
        (/\ pcMain = "blocksLoop"
         /\ processes[p].status = ProcessStatusOn
         /\ processes[p].resPubStartBlock <= lastSyncBlockNum)
        ~> (processes[p].status # ProcessStatusOn)

\* C3: only the header case of syncBlocksLive changes the persisted
\* checkpoint (to the received header's number); the checkpoint is read once,
\* by the first statement of Sync, and that read alone sets the backfill's
\* lower bound.
C3_CheckpointWrittenOnlyByHeaders ==
    [][/\ lastSyncBlockNum' # lastSyncBlockNum
            => (pcMain = "blocksLoop" /\ pcMain' = "blocksLoop"
                /\ lastSyncBlockNum' = header' /\ headerErr' = "nil"
                /\ processes' = processes)
       /\ ckptReads' # ckptReads
            => (pcMain = "Sync" /\ ckptReads = 0 /\ ckptReads' = 1)
       /\ startBlock' # startBlock
            => (pcMain = "Sync" /\ startBlock' = lastSyncBlockNum)]_vars

\* C3 witness: backfill and a live log have run, the checkpoint was read once
\* and a header has since moved it away from the value read at startup
C3_Witness ==
    /\ pcMain = "blocksLoop"
    /\ ckptReads = 1
    /\ lastSyncBlockNum # startBlock
    /\ \E p \in PIDs : Stored(p)

\* C4 (as claimed): no step lowers the persisted checkpoint.
C4_CheckpointNeverDecreases ==
    [][lastSyncBlockNum' >= lastSyncBlockNum]_vars

\* C4 (amended): a step leaves the checkpoint unchanged or sets it to the
\* number of the header just received, so it does not decrease when that
\* number is not below the stored checkpoint.
C4_CheckpointFollowsHeader ==
    [][/\ lastSyncBlockNum' \in {lastSyncBlockNum, header'}
       /\ header' >= lastSyncBlockNum
            => lastSyncBlockNum' >= lastSyncBlockNum]_vars

\* C4 witness: a header update has raised the checkpoint above the value read
\* at startup
C4_Witness ==
    /\ pcMain = "blocksLoop"
    /\ headerErr = "nil"
    /\ lastSyncBlockNum = header
    /\ lastSyncBlockNum > startBlock

\* C5 (as claimed): while the backfill is in progress the header case of
\* syncBlocksLive can run, and so can the log case of syncEventsLive once the
\* log subscription is made.
C5_HeadersHandledDuringBackfill ==
    pcMain \in BackfillPcs
        => /\ ENABLED syncBlocksLiveHeader
           /\ pcLive = "eventsLoop" => ENABLED syncEventsLiveLog

\* C5 (amended): while the backfill is in progress the live log goroutine has
\* been started and, once subscribed, can apply a log; the header case cannot
\* run and the checkpoint still has the value read at startup.
C5_OnlyLogsDuringBackfill ==
    pcMain \in BackfillPcs
        => /\ pcLive # "notStarted"
           /\ pcLive = "eventsLoop" => ENABLED syncEventsLiveLog
           /\ ~ENABLED syncBlocksLiveHeader
           /\ lastSyncBlockNum = startBlock

\* C5 witness: a live log has stored a process before the backfill applied
\* any log
C5_Witness ==
    /\ pcMain = "FilterLogs"
    /\ pcLive = "eventsLoop"
    /\ liveErr = "nil"
    /\ \E p \in PIDs : Stored(p)

\* C6 (as claimed): Sync does not return because of a failed ranged log
\* query or a failed freeze sweep.
C6_BackfillFailureDoesNotReturn ==
    syncReturn \notin {"FilterLogs", "FrozeProcessesByCurrentBlockNum"}

\* C6 (amended): Sync returns only from a failed checkpoint read, a failed
\* backfill call (chain height, ranged log query, freeze sweep) or a failed
\* header subscription; it never returns from the backfill loop or from the
\* header loop, and a failed log subscription ends only the log goroutine.
C6_SyncReturnsOnlyOnCallFailure ==
    [][/\ (pcMain' = "returned" /\ pcMain # "returned")
            => /\ pcMain \in {"Sync", "syncHistory", "FilterLogs", "Froze",
                              "SubscribeNewHead"}
               /\ syncReturn' =
                    (CASE pcMain = "Sync" -> "GetLastSyncBlockNum"
                       [] pcMain = "syncHistory" -> "HeaderByNumber"
                       [] pcMain = "FilterLogs" -> "FilterLogs"
                       [] pcMain = "Froze" -> "FrozeProcessesByCurrentBlockNum"
                       [] pcMain = "SubscribeNewHead" -> "SubscribeNewHead")
               /\ pcLive' = pcLive
       /\ pcMain \in {"goEventsLive", "historyLoop", "blocksLoop"}
            => pcMain' # "returned"
       /\ (pcLive' = "exited" /\ pcLive # "exited")
            => (pcMain' = pcMain /\ syncReturn' = syncReturn)]_vars

\* C6 witness: the log subscription failed and a checkpoint update failed,
\* and Sync is still in the header loop
C6_Witness ==
    /\ pcMain = "blocksLoop"
    /\ headerErr = "update"
    /\ pcLive = "exited"
    /\ syncReturn = ""

\* C7: the backfill loop applies every returned log whatever the earlier ones
\* returned, and neither live loop is left after an error.
C7_ErrorsDoNotHaltStreams ==
    [][/\ pcMain' = "Froze"
            => i' = lenLogs' + 1
       /\ (pcMain = "historyLoop" /\ i' # i)
            => (i' = i + 1 /\ lenLogs' = lenLogs
                /\ pcMain' = IF i' <= lenLogs THEN "historyLoop" ELSE "Froze")
       /\ pcLive = "eventsLoop" => pcLive' = "eventsLoop"
       /\ pcMain = "blocksLoop" => pcMain' = "blocksLoop"]_vars

\* C7 witness: applying the first log of a backfill batch of two has failed,
\* a live log has failed too, and both loops are still running, the backfill
\* loop about to apply the second log
C7_Witness ==
    /\ pcMain = "historyLoop"
    /\ lenLogs = 2
    /\ i = 2
    /\ histErr # "nil"
    /\ pcLive = "eventsLoop"
    /\ liveErr \notin {"nil", "subscription"}

\* C8: a NewProcess log applied (by the backfill or by the live goroutine)
\* for a process id that is stored, whoever stored it, returns an error and
\* leaves the registry (the row and its status) as it is, and the loop that
\* applied it goes on.
C8_DuplicateNewProcessRejected ==
    [][/\ (pcMain = "historyLoop" /\ i' = i + 1
           /\ histLog'.len = eventNewProcessLen /\ Stored(histLog'.pid))
            => (processes' = processes /\ histErr' # "nil"
                /\ pcMain' \in {"historyLoop", "Froze"})
       /\ (pcMain = "historyLoop" /\ i' = i + 1
           /\ histLog'.len = eventNewProcessLen /\ histErr' = "nil")
            => (~Stored(histLog'.pid)
                /\ processes'[histLog'.pid].status = ProcessStatusOn)
       /\ (liveErr' = "store" /\ pcMain' = pcMain /\ i' = i)
            => (processes' = processes /\ pcLive' = "eventsLoop")
       /\ (pcMain' = pcMain /\ i' = i)
            => \A p \in PIDs :
                Stored(p) => processes'[p] \in
                    {processes[p],
                     [processes[p] EXCEPT
                        !.status = ProcessStatusContractClosed]}]_vars

\* C8 witness: the backfill has applied, as the second log of its batch, a
\* NewProcess log for a stored process id with another resPubStartBlock; it
\* returned the storage error and the row kept its resPubStartBlock
C8_Witness ==
    /\ pcMain = "Froze"
    /\ lenLogs = 2
    /\ histLog.len = eventNewProcessLen
    /\ histErr = "store"
    /\ processes[histLog.pid].status = ProcessStatusOn
    /\ processes[histLog.pid].resPubStartBlock # histLog.resPubStartBlock

\* C9: on every registry, sweeping twice equals sweeping once, and sweep then
\* ProcessClosed equals ProcessClosed then sweep, with the closed process
\* ContractClosed.
C9_FreezeIdempotentCommutes ==
    \A b \in Blocks, p \in PIDs :
        LET Sweep(procs) == FrozeProcessesByCurrentBlockNum(procs, b)
            Close(procs) ==
                processEventLog(procs, ProcessClosedLog(p), TRUE, TRUE).procs
        IN /\ Sweep(Sweep(processes)) = Sweep(processes)
           /\ Close(Sweep(processes)) = Sweep(Close(processes))
           /\ Stored(p)
                => Close(Sweep(processes))[p].status
                        = ProcessStatusContractClosed

\* C9 witness: a process whose threshold the backfill height has reached is
\* On, so the sweep and ProcessClosed both change it
C9_Witness ==
    /\ pcMain = "Froze"
    /\ \E p \in PIDs :
        /\ processes[p].status = ProcessStatusOn
        /\ processes[p].resPubStartBlock <= currBlockNum

\* C10: processEventLog decides by len(Data) alone: a log of 288 bytes that
\* is applied stores its process with status On, one of 96 bytes sets
\* ContractClosed, one of 160 bytes changes nothing, and one of any other
\* length returns the unrecognized-event error and changes nothing; applying
\* a log never changes the checkpoint.
C10_KindByLengthAlone ==
    [][/\ (pcMain = "historyLoop" /\ i' = i + 1)
            => LET l == histLog'
                   err == histErr'
               IN /\ lastSyncBlockNum' = lastSyncBlockNum
                  /\ l.len \in OtherLens
                        => (processes' = processes /\ err = "unrecognized")
                  /\ l.len = eventResultPublishedLen
                        => (processes' = processes /\ err \in {"nil", "parse"})
                  /\ l.len = eventNewProcessLen
                        => /\ err \in {"nil", "parse", "store"}
                           /\ processes' =
                                IF err = "nil"
                                THEN [processes EXCEPT ![l.pid] =
                                        [status |-> ProcessStatusOn,
                                         resPubStartBlock |->
                                            l.resPubStartBlock]]
                                ELSE processes
                  /\ l.len = eventProcessClosedLen
                        => /\ err \in {"nil", "parse", "update"}
                           /\ processes' =
                                IF err = "nil" /\ Stored(l.pid)
                                THEN [processes EXCEPT ![l.pid].status =
                                        ProcessStatusContractClosed]
                                ELSE processes
       /\ (pcMain' = pcMain /\ i' = i)
            => /\ liveErr' \in {"unrecognized", "parse", "subscription"}
                    => processes' = processes
               /\ processes' # processes
                    => (liveErr' = "nil" /\ lastSyncBlockNum' = lastSyncBlockNum
                        /\ \E p \in PIDs :
                            \/ /\ ~Stored(p)
                               /\ \E b \in Blocks :
                                    processes' = [processes EXCEPT ![p] =
                                        [status |-> ProcessStatusOn,
                                         resPubStartBlock |-> b]]
                            \/ /\ Stored(p)
                               /\ processes' = [processes EXCEPT ![p].status =
                                        ProcessStatusContractClosed])]_vars

\* C10 witness: the backfill has applied a log of unrecognized length, the
\* live goroutine too, and the registry holds a process
C10_Witness ==
    /\ pcMain = "Froze"
    /\ histLog.len \in OtherLens
    /\ histErr = "unrecognized"
    /\ liveErr = "unrecognized"
    /\ \E p \in PIDs : Stored(p)

\* helpers of the vote store claims
VoteKey(row) == <<row.indx, row.publicKey, row.processID>>
StoredKeys == {VoteKey(votepackages[k]) : k \in 1..Len(votepackages)}
VoteRow(processID, vote) ==
    [id |-> VoteID(vote.indx, vote.publicKey, processID), indx |-> vote.indx,
     publicKey |-> vote.publicKey, processID |-> processID]

\* C11: no two stored vote packages share (index, identity, processID); in
\* every reachable state a StoreVotePackage call whose triple is already
\* stored fails with an error and stores nothing, and a call whose triple is
\* not stored (the same index and identity in another process, another index
\* or identity in the same process) is stored when its process exists and
\* the storage works.
C11_UniquePerIndexIdentityProcess ==
    /\ \A j, k \in 1..Len(votepackages) :
        VoteKey(votepackages[j]) = VoteKey(votepackages[k]) => j = k
    /\ \A processID \in VotePIDs, vote \in VotePackages :
        LET r == StoreVotePackage(votepackages, processes, processID, vote,
                                  TRUE) IN
        IF <<vote.indx, vote.publicKey, processID>> \in StoredKeys
        THEN r.err # "nil" /\ r.rows = votepackages
        ELSE ProcessExists(processes, processID)
             => /\ r.err = "nil"
                /\ r.rows = Append(votepackages, VoteRow(processID, vote))

\* C11 witness: the same (index, identity) is stored in two processes, and
\* the last call, a repeated triple, was refused by the UNIQUE id
C11_Witness ==
    /\ voteErr = "UNIQUE constraint failed"
    /\ \E j, k \in 1..Len(votepackages) :
        /\ votepackages[j].indx = votepackages[k].indx
        /\ votepackages[j].publicKey = votepackages[k].publicKey
        /\ votepackages[j].processID # votepackages[k].processID

\* C12: a StoreVotePackage call for a process id that is not in the registry
\* returns the "ProcessID does not exist" error; no step removes or changes
\* a stored row (the table only grows at its end, one row per step), and a
\* step that adds a row is a call that returned no error, so a call that
\* failed left the table as it was.
C12_FailedStoreChangesNothing ==
    [][/\ \A processID \in VotePIDs, vote \in VotePackages :
            ~ProcessExists(processes, processID)
            => StoreVotePackage(votepackages, processes, processID, vote, TRUE)
               = [rows |-> votepackages, err |-> "ProcessID does not exist"]
       /\ Len(votepackages') >= Len(votepackages)
       /\ SubSeq(votepackages', 1, Len(votepackages)) = votepackages
       /\ votepackages' # votepackages
            => voteErr' = "nil" /\ Len(votepackages') = Len(votepackages) + 1
       /\ voteErr' # "nil" => votepackages' = votepackages]_vars

\* C12 witness: a call for an unknown process failed while rows are stored
C12_Witness ==
    /\ voteErr = "ProcessID does not exist"
    /\ Len(votepackages) >= 1

\* C13: for every process p, ReadVotePackagesByProcessID(p) holds exactly
\* the stored rows of p, each once and none of another process, and its
\* census indexes never decrease along the result, whatever order the rows
\* were inserted in.
C13_ReadExactlyAscending ==
    \A p \in VotePIDs :
        LET out == ReadVotePackagesByProcessID(votepackages, p)
            mine == {k \in 1..Len(votepackages) :
                        votepackages[k].processID = p}
        IN  /\ Len(out) = Cardinality(mine)
            /\ {out[k] : k \in 1..Len(out)}
               = {ScanVotePackage(votepackages[k]) : k \in mine}
            /\ \A j, k \in 1..Len(out) : j < k => out[j].indx <= out[k].indx

\* C13 witness: a process's rows were inserted with the greater index first,
\* with a row of another process in the table, and the read puts them in order
C13_Witness ==
    \E p \in VotePIDs :
        /\ \E j, k \in 1..Len(votepackages) :
            /\ j < k
            /\ votepackages[j].processID = p /\ votepackages[k].processID = p
            /\ votepackages[j].indx > votepackages[k].indx
        /\ \E k \in 1..Len(votepackages) : votepackages[k].processID # p
        /\ Len(ReadVotePackagesByProcessID(votepackages, p)) = 2

\* C14: a vote package is only stored while its process is On: every step
\* that adds a row to the table adds it for a process whose status is On.
C14_VotesOnlyForOpenProcess ==
    [][votepackages' # votepackages
        => processes[votepackages'[Len(votepackages')].processID].status
           = ProcessStatusOn]_vars

\* helpers of the census claims
Keys(lvs) == {l.publicKey : l \in lvs}
CensusInfo == Info(leaves, nextIndex, closed)
\* a batch none of whose keys is in the census or twice in the batch
NoDuplicates(pubKs) ==
    /\ Range(pubKs) \cap Keys(leaves) = {}
    /\ \A j, k \in 1..Len(pubKs) : pubKs[j] = pubKs[k] => j = k

\* C15: nextIndex is the number of identities enrolled (0 for a new census)
\* and the recorded indexes are exactly 0..nextIndex-1, one leaf each; on an
\* open census a call whose keys are all new reports no invalid, adds
\* len(pubKs) to nextIndex, and records its j-th key (counted from 0) with
\* index nextIndex + j, so the i-th identity enrolled overall has index i.
C15_SequentialIndexes ==
    /\ nextIndex = Cardinality(leaves)
    /\ {l.index : l \in leaves} = 0..(nextIndex - 1)
    /\ \A l1, l2 \in leaves : l1.index = l2.index => l1 = l2
    /\ ~closed
        => \A pubKs \in Batches :
            NoDuplicates(pubKs)
            => AddPublicKeys(leaves, nextIndex, closed, pubKs, TRUE)
               = [leaves |-> leaves \cup
                     {[index |-> nextIndex + j - 1, publicKey |-> pubKs[j]] :
                        j \in 1..Len(pubKs)},
                  nextIndex |-> nextIndex + Len(pubKs),
                  invalids |-> <<>>, err |-> "nil"]

\* C15 witness: more identities than one call takes are enrolled, the last
\* call without invalids, and the census is still open
C15_Witness ==
    /\ nextIndex > MaxBatch
    /\ invalids = <<>>
    /\ censusErr = "nil"
    /\ ~closed

\* C16: on an open census, for every batch: the call does not fail; every
\* key of the batch that is already in the census is in invalids, and
\* invalids holds only keys that were in the census or earlier in the batch;
\* nextIndex advances by the number of new keys only; every leaf of the
\* census is kept as it is; and every key of the batch has exactly one leaf
\* afterwards, so the new keys of the call are enrolled.
C16_DuplicatesReportedNotEnrolled ==
    ~closed
    => \A pubKs \in Batches :
        LET r == AddPublicKeys(leaves, nextIndex, closed, pubKs, TRUE) IN
        /\ r.err = "nil"
        /\ Range(pubKs) \cap Keys(leaves) \subseteq Range(r.invalids)
        /\ \A k \in Range(r.invalids) :
            \/ k \in Keys(leaves)
            \/ Cardinality({j \in 1..Len(pubKs) : pubKs[j] = k}) > 1
        /\ r.nextIndex
           = nextIndex + Cardinality(Range(pubKs) \ Keys(leaves))
        /\ leaves \subseteq r.leaves
        /\ \A k \in Range(pubKs) \cup Keys(leaves) :
            Cardinality({l \in r.leaves : l.publicKey = k}) = 1

\* C16 witness: the last call reported an invalid key without failing, and
\* the census holds a key other than the reported one
C16_Witness ==
    /\ Len(invalids) = 1
    /\ censusErr = "nil"
    /\ \E l \in leaves : l.publicKey # invalids[1] /\ l.index = nextIndex - 1

\* C17: on a closed census every AddPublicKeys call, whatever the batch and
\* the storage, returns the closed error and leaves the census as it is, a
\* Close returns no error and changes nothing; and every step taken from a
\* closed census leaves it closed with the same leaves, nextIndex, and the
\* same size and root in Info().
C17_CloseIsIrreversible ==
    [][closed
        => /\ \A pubKs \in Batches, dbOk \in BOOLEAN :
                AddPublicKeys(leaves, nextIndex, closed, pubKs, dbOk)
                = [leaves |-> leaves, nextIndex |-> nextIndex,
                   invalids |-> <<>>, err |-> "closed"]
           /\ \A dbOk \in BOOLEAN :
                CloseCensus(closed, dbOk) = [closed |-> TRUE, err |-> "nil"]
           /\ closed'
           /\ leaves' = leaves
           /\ nextIndex' = nextIndex
           /\ censusErr' \in {"closed", "nil"}
           /\ CensusInfo'.Size = CensusInfo.Size
           /\ CensusInfo'.Root = CensusInfo.Root]_vars

\* C17 witness: an enrollment was refused on a closed census that has leaves
C17_Witness ==
    /\ closed
    /\ censusErr = "closed"
    /\ nextIndex >= 1

\* C18: Info() reports an empty error message, Size = nextIndex = the number
\* of identities enrolled, and the closed flag; Root is the empty root while
\* the census is open, also with identities enrolled, and the tree's root
\* once it is closed; the step that closes the census keeps Size.
C18_InfoSnapshot ==
    [][/\ CensusInfo'.ErrMsg = ""
       /\ CensusInfo'.Size = nextIndex'
       /\ CensusInfo'.Size = Cardinality(leaves')
       /\ CensusInfo'.Closed = closed'
       /\ ~closed' => CensusInfo'.Root = EmptyRoot
       /\ closed' => CensusInfo'.Root = Root(leaves')
       /\ (~closed /\ closed') => CensusInfo'.Size = CensusInfo.Size]_vars

\* C18 witness: a census closed with identities enrolled, whose Info() root
\* is no longer the empty root
C18_Witness ==
    /\ closed
    /\ CensusInfo.Size >= 2
    /\ CensusInfo.Root # EmptyRoot

\* C19: the backfill's range is fixed: startBlock is the checkpoint as Sync
\* read it and stays that value until the backfill is over, currBlockNum
\* stays the height syncHistory fetched, and the one query is built as
\* [startBlock, currBlockNum] and not changed while its logs are applied,
\* whatever else is written meanwhile.  The logs are applied one at a time in
\* index order (each loop step applies the next log and only that), no
\* process is frozen while logs remain, and the sweep runs once the index has
\* passed the last log, for the queried height.
C19_BackfillRangeOrderSweep ==
    [][/\ (pcMain = "Sync" /\ pcMain' = "goEventsLive")
            => startBlock' = lastSyncBlockNum
       /\ pcMain \in {"goEventsLive"} \cup BackfillPcs
            => startBlock' = startBlock
       /\ (pcMain \in {"FilterLogs", "historyLoop"} \/ pcMain' = "Froze")
            => currBlockNum' = currBlockNum
       /\ (pcMain = "FilterLogs" /\ pcMain' # "FilterLogs")
            => query' = [FromBlock |-> startBlock, ToBlock |-> currBlockNum]
       /\ pcMain = "historyLoop"
            => /\ query' = query
               /\ lenLogs' = lenLogs
               /\ i <= lenLogs
               /\ i' # i
                    => /\ i' = i + 1
                       /\ \E parseOk \in BOOLEAN, dbOk \in BOOLEAN :
                            processes' = processEventLog(processes, histLog',
                                             parseOk, dbOk).procs
       /\ pcMain \in {"FilterLogs", "historyLoop"}
            => \A p \in PIDs :
                processes[p].status = ProcessStatusOn
                => processes'[p].status # ProcessStatusFrozen
       /\ (pcMain = "Froze" /\ pcMain' = "SubscribeNewHead")
            => /\ i = lenLogs + 1
               /\ query.ToBlock = currBlockNum
               /\ processes' = FrozeProcessesByCurrentBlockNum(processes,
                                                               query.ToBlock)
      ]_vars

\* C19 witness: every log of a full batch has been applied, the query went
\* from a checkpoint above 0 to the fetched height, and a process is On
\* whose results publication block the sweep about to run has reached
C19_Witness ==
    /\ pcMain = "Froze"
    /\ lenLogs = MaxHistLogs
    /\ i = lenLogs + 1
    /\ query = [FromBlock |-> startBlock, ToBlock |-> currBlockNum]
    /\ query.FromBlock > 0
    /\ \E p \in PIDs :
        /\ processes[p].status = ProcessStatusOn
        /\ processes[p].resPubStartBlock <= query.ToBlock

\* C20: whichever of the two is applied last, once the backfill has stored
\* process p from its NewProcess log and the live goroutine has applied p's
\* ProcessClosed log without error, p is ContractClosed: a backfill step
\* that stores p after the live goroutine applied its ProcessClosed leaves p
\* ContractClosed, and so does a live step that applies ProcessClosed to a
\* stored p.
C20_NoCloseLost ==
    [][\A p \in PIDs :
        /\ (/\ pcMain = "historyLoop"
            /\ i' # i
            /\ histLog'.len = eventNewProcessLen
            /\ histLog'.pid = p
            /\ histErr' = "nil"
            /\ p \in closeSeen)
            => processes'[p].status = ProcessStatusContractClosed
        /\ (Stored(p) /\ syncEventsLiveLogOf(ProcessClosedLog(p), TRUE, TRUE))
            => processes'[p].status = ProcessStatusContractClosed
      ]_vars

====
